---------------------------- MODULE Spec2Model ----------------------------
(***************************************************************************)
(* TaskFlow (src/server.ts): an express server over a better-sqlite3       *)
(* database with three tables (users, tasks, subtasks), JWT cookie         *)
(* sessions and eleven JSON endpoints.                                     *)
(*                                                                         *)
(* The database is the only state the server keeps between requests.  Each *)
(* request handler is one action, except POST /api/register, which awaits  *)
(* bcrypt.hash between its validation and its INSERT and is therefore two  *)
(* steps (RegisterBegin, RegisterEnd) between which other requests run.    *)
(*                                                                         *)
(* JSON scalars are modelled as strings.  Absent is a field that is not in *)
(* the request body (JavaScript undefined), Null is SQL NULL.              *)
(***************************************************************************)
EXTENDS Integers, Sequences, FiniteSets, TLC

VARIABLES
    db,       \* the database: users, tasks, subtasks and sqlite_sequence
    now,      \* the wall clock, in seconds
    tokens,   \* the session credentials jwt.sign has issued so far
    pending,  \* the bodies of the register requests that await bcrypt.hash
    last,     \* the last request served and its response
    shadow    \* a second database, used only by the two-run specification

vars == <<db, now, tokens, pending, last, shadow>>

---------------------------------------------------------------------------
(* Values *)

Absent == "<undefined>"
Null == "<NULL>"

\* better-sqlite3 binds undefined as NULL
Bind(v) == IF v = Absent THEN Null ELSE v

\* JavaScript truthiness of a JSON scalar: undefined, null, "", false and 0 are falsy
Falsy(v) == v \in {Absent, Null, "", "false", "0"}

\* a || b
OrElse(a, b) == IF Falsy(a) THEN b ELSE a

\* (completed !== undefined ? 1 : 0)
CoerceDefined(v) == IF v \in {Absent, Null} THEN 0 ELSE 1

\* completed ? 1 : 0
Coerce01(v) == IF Falsy(v) THEN 0 ELSE 1

SecondsPerDay == 86400

\* expiresIn: "24h"
TokenTTL == 86400

\* date(ts): the timestamp truncated to its day
DateOf(ts) == ts \div SecondsPerDay

RECURSIVE SetToSeqs(_)
\* every ordering of a finite set
SetToSeqs(S) ==
    IF S = {} THEN {<<>>}
    ELSE UNION {{<<x>> \o s : s \in SetToSeqs(S \ {x})} : x \in S}

RECURSIVE SortById(_)
\* the rows of S by ascending id (a table scan in rowid order)
SortById(S) ==
    IF S = {} THEN <<>>
    ELSE LET r == CHOOSE x \in S : \A y \in S : x.id <= y.id
         IN <<r>> \o SortById(S \ {r})

Range(s) == {s[i] : i \in DOMAIN s}

---------------------------------------------------------------------------
(* The database schema *)

EmptyDb ==
    [users |-> {}, tasks |-> {}, subtasks |-> {},
     seq |-> [users |-> 0, tasks |-> 0, subtasks |-> 0]]

\* (an email column without UNIQUE)
NoUniqueEmail(st, email) == TRUE

\* email TEXT UNIQUE
UniqueEmail(st, email) == \A u \in st.users : u.email # email

\* title TEXT NOT NULL
NotNull(v) == v # Null

\* FOREIGN KEY(user_id) REFERENCES users(id)
UserExists(st, uid) == \E u \in st.users : u.id = uid

\* (a task_id column without its FOREIGN KEY)
NoForeignKey(st, tid) == TRUE

\* FOREIGN KEY(task_id) REFERENCES tasks(id)
TaskExists(st, tid) == \E t \in st.tasks : t.id = tid

\* (a foreign key without its ON DELETE CASCADE rule)
CascadeNothing(st, gone) == {}

\* ON DELETE CASCADE: the subtasks that go with the deleted tasks
Cascade(st, gone) == {s \in st.subtasks : \E t \in gone : s.task_id = t.id}


---------------------------------------------------------------------------
(* Responses *)

\* res.status(code).json(body); res.json(body) is status 200
Json(code, body) == [status |-> code, type |-> "json", body |-> body]

\* an exception that leaves a handler reaches express's default error
\* handler, which answers 500 with an HTML page
Uncaught(msg) == [status |-> 500, type |-> "html", body |-> [message |-> msg]]

\* what a handler gives back: the database after it, its response, and the
\* number of rows its statement changed (RunResult.changes) and cascaded
Outcome(st, res, changes, cascaded) ==
    [st |-> st, res |-> res, changes |-> changes, cascaded |-> cascaded]

---------------------------------------------------------------------------
(* Sessions *)

NoCookie == [kind |-> "none"]
Garbage == [kind |-> "garbage"]

\* (expiresIn: "1h")
JwtSignForAnHour(user, t) ==
    [kind |-> "jwt", id |-> user.id, email |-> user.email, name |-> user.name,
     exp |-> t + 3600]

\* jwt.sign({id, email, name}, JWT_SECRET, {expiresIn: "24h"}) at time t
JwtSign(user, t) ==
    [kind |-> "jwt", id |-> user.id, email |-> user.email, name |-> user.name,
     exp |-> t + TokenTTL]

\* (a verify that ignores exp)
JwtVerifyIgnoreExpiration(cred, t) == cred.kind = "jwt"

\* jwt.verify(token, JWT_SECRET) at time t does not throw
JwtVerify(cred, t) == cred.kind = "jwt" /\ t < cred.exp

\* the Auth Middleware: ok and the decoded claims, or the 401 it answers
authenticate(cred, t) ==
    IF cred.kind = "none"
    THEN [ok |-> FALSE, res |-> Json(401, [error |-> "Unauthorized"])]
    ELSE IF JwtVerify(cred, t)
    THEN [ok |-> TRUE, user |-> [id |-> cred.id, email |-> cred.email, name |-> cred.name]]
    ELSE [ok |-> FALSE, res |-> Json(401, [error |-> "Invalid token"])]

---------------------------------------------------------------------------
(* Password hashing *)

\* bcrypt.hash(password, 10) with the salt it drew
BcryptHash(password, salt) == [salt |-> salt, digest |-> <<salt, password>>]

\* bcrypt.compare(password, hash), for a string password
BcryptCompare(password, hash) == hash.digest = <<hash.salt, password>>

---------------------------------------------------------------------------
(* Auth Routes *)

\* email.split("@")[0]
LocalPart(email) ==
    CASE email = "a@x.com" -> "a"
      [] email = "b@x.com" -> "b"
      [] OTHER -> email

\* if (!email || !password) return 400
RegisterValid(body) == ~Falsy(body.email) /\ ~Falsy(body.password)

RegisterInvalid(st) ==
    Outcome(st, Json(400, [error |-> "Email and password required"]), 0, 0)

\* the catch block of POST /api/register
RegisterCatch(st, message) ==
    IF message = "UNIQUE constraint failed: users.email"
    THEN Outcome(st, Json(400, [error |-> "Email already exists"]), 0, 0)
    ELSE Outcome(st, Json(500, [error |-> "Registration failed"]), 0, 0)

\* (an INSERT that binds name as it came)
NewUserRowNameAsSent(st, body, salt) ==
    [id |-> st.seq.users + 1,
     email |-> body.email,
     password |-> BcryptHash(body.password, salt),
     name |-> Bind(body.name)]

\* the row POST /api/register inserts
NewUserRow(st, body, salt) ==
    [id |-> st.seq.users + 1,
     email |-> body.email,
     password |-> BcryptHash(body.password, salt),
     name |-> OrElse(body.name, LocalPart(body.email))]

\* POST /api/register once bcrypt.hash has resolved: the INSERT and the answer
RegisterInsert(st, body, salt) ==
    LET row == NewUserRow(st, body, salt) IN
    IF ~UniqueEmail(st, row.email)
    THEN RegisterCatch(st, "UNIQUE constraint failed: users.email")
    ELSE Outcome([st EXCEPT !.users = @ \cup {row}, !.seq.users = row.id],
                 Json(200, [id |-> row.id]), 1, 0)

\* SELECT * FROM users WHERE email = ?
UsersByEmail(st, email) == {u \in st.users : u.email = Bind(email)}

\* what becomes of a request whose async handler threw: express 4 never
\* answers it, express 5 hands the error to its default error handler
Unanswered(msg) == [status |-> 0, type |-> "none", body |-> [message |-> msg]]
Rejections(msg) == {Unanswered(msg), Uncaught(msg)}

\* POST /api/login: the response, and the token it set (if any)
LoginHandler(st, t, body, rejection) ==
    LET found == UsersByEmail(st, body.email) IN
    IF found = {}
    THEN [res |-> Json(401, [error |-> "Invalid credentials"]), issued |-> {}]
    ELSE LET user == CHOOSE u \in found : TRUE IN
         IF body.password = Absent
         THEN \* bcrypt.compare rejects: Illegal arguments: undefined, string
              [res |-> rejection, issued |-> {}]
         ELSE IF BcryptCompare(body.password, user.password)
         THEN [res |-> Json(200, [id |-> user.id, email |-> user.email, name |-> user.name]),
               issued |-> {JwtSign(user, t)}]
         ELSE [res |-> Json(401, [error |-> "Invalid credentials"]), issued |-> {}]

\* POST /api/logout
LogoutHandler(st) == Outcome(st, Json(200, [success |-> TRUE]), 0, 0)

---------------------------------------------------------------------------
(* Task Routes, after authenticate has set req.user *)

\* (a SELECT that lost its WHERE user_id = ?)
OwnedByAnyone(st, uid) == st.tasks

\* WHERE user_id = ?
OwnedBy(st, uid) == {t \in st.tasks : t.user_id = uid}

\* (a statement that lost its AND user_id = ?)
OwnFilterIdOnly(t, id, uid) == t.id = id

\* WHERE id = ? AND user_id = ?
OwnFilter(t, id, uid) == t.id = id /\ t.user_id = uid

\* SELECT * FROM subtasks WHERE task_id = ?
SubtasksOf(st, tid) == SortById({s \in st.subtasks : s.task_id = tid})

\* (ORDER BY created_at ASC)
OrderedAsc(s) == \A i, j \in DOMAIN s : i < j => s[i].created_at <= s[j].created_at

\* ORDER BY created_at DESC: no row comes before a row created later
OrderedDesc(s) == \A i, j \in DOMAIN s : i < j => s[i].created_at >= s[j].created_at

\* SELECT * FROM tasks WHERE user_id = ? ORDER BY created_at DESC: rows of
\* equal created_at come in an order SQL leaves open
SelectTasks(st, uid) == {s \in SetToSeqs(OwnedBy(st, uid)) : OrderedDesc(s)}

\* tasks.map(task => ({...task, subtasks}))
WithSubtasks(st, rows) ==
    [i \in DOMAIN rows |-> rows[i] @@ [subtasks |-> SubtasksOf(st, rows[i].id)]]

\* GET /api/tasks, for one of the orders the SELECT may return
ListTasksHandler(st, user, rows) ==
    Outcome(st, Json(200, WithSubtasks(st, rows)), 0, 0)

\* (an id column without AUTOINCREMENT: one more than the largest stored id)
NewTaskRowAfterLargest(st, t, user, body) ==
    [id |-> IF st.tasks = {} THEN 1
            ELSE 1 + CHOOSE m \in {r.id : r \in st.tasks} : \A r \in st.tasks : r.id <= m,
     user_id |-> user.id,
     title |-> Bind(body.title),
     description |-> Bind(body.description),
     priority |-> Bind(OrElse(body.priority, "medium")),
     category |-> Bind(OrElse(body.category, "General")),
     due_date |-> Bind(body.due_date),
     completed |-> 0,
     created_at |-> t]

\* (an INSERT that binds priority and category as they came)
NewTaskRowAsSent(st, t, user, body) ==
    [id |-> st.seq.tasks + 1,
     user_id |-> user.id,
     title |-> Bind(body.title),
     description |-> Bind(body.description),
     priority |-> Bind(body.priority),
     category |-> Bind(body.category),
     due_date |-> Bind(body.due_date),
     completed |-> 0,
     created_at |-> t]

\* the row POST /api/tasks inserts
NewTaskRow(st, t, user, body) ==
    [id |-> st.seq.tasks + 1,
     user_id |-> user.id,
     title |-> Bind(body.title),
     description |-> Bind(body.description),
     priority |-> Bind(OrElse(body.priority, "medium")),
     category |-> Bind(OrElse(body.category, "General")),
     due_date |-> Bind(body.due_date),
     completed |-> 0,
     created_at |-> t]

\* POST /api/tasks
CreateTaskHandler(st, t, user, body) ==
    LET row == NewTaskRow(st, t, user, body) IN
    IF ~NotNull(row.title)
    THEN Outcome(st, Uncaught("NOT NULL constraint failed: tasks.title"), 0, 0)
    ELSE IF ~UserExists(st, row.user_id)
    THEN Outcome(st, Uncaught("FOREIGN KEY constraint failed"), 0, 0)
    ELSE Outcome([st EXCEPT !.tasks = @ \cup {row}, !.seq.tasks = row.id],
                 Json(200, [id |-> row.id, title |-> body.title, completed |-> 0,
                            subtasks |-> <<>>]),
                 1, 0)

\* (an UPDATE that also sets created_at, to the start of the epoch)
UpdatedRowRestamped(row, body) ==
    [row EXCEPT !.title = Bind(body.title),
                !.description = Bind(body.description),
                !.priority = Bind(body.priority),
                !.category = Bind(body.category),
                !.due_date = Bind(body.due_date),
                !.completed = Coerce01(body.completed),
                !.created_at = 0]

\* UPDATE tasks SET title = ?, ..., completed = ? on one row
UpdatedRow(row, body) ==
    [row EXCEPT !.title = Bind(body.title),
                !.description = Bind(body.description),
                !.priority = Bind(body.priority),
                !.category = Bind(body.category),
                !.due_date = Bind(body.due_date),
                !.completed = Coerce01(body.completed)]

\* PUT /api/tasks/:id
UpdateTaskHandler(st, user, id, body) ==
    LET hit == {t \in st.tasks : OwnFilter(t, id, user.id)} IN
    IF hit # {} /\ ~NotNull(Bind(body.title))
    THEN Outcome(st, Uncaught("NOT NULL constraint failed: tasks.title"), 0, 0)
    ELSE Outcome([st EXCEPT !.tasks = (@ \ hit) \cup {UpdatedRow(r, body) : r \in hit}],
                 Json(200, [success |-> TRUE]), Cardinality(hit), 0)

\* DELETE /api/tasks/:id
DeleteTaskHandler(st, user, id) ==
    LET hit == {t \in st.tasks : OwnFilter(t, id, user.id)}
        gone == Cascade(st, hit)
    IN Outcome([st EXCEPT !.tasks = @ \ hit, !.subtasks = @ \ gone],
               Json(200, [success |-> TRUE]), Cardinality(hit), Cardinality(gone))

---------------------------------------------------------------------------
(* Subtask Routes *)

\* the row POST /api/tasks/:taskId/subtasks inserts
NewSubtaskRow(st, taskId, body) ==
    [id |-> st.seq.subtasks + 1, task_id |-> taskId, title |-> Bind(body.title),
     completed |-> 0]

\* POST /api/tasks/:taskId/subtasks
CreateSubtaskHandler(st, user, taskId, body) ==
    LET row == NewSubtaskRow(st, taskId, body) IN
    IF ~NotNull(row.title)
    THEN Outcome(st, Uncaught("NOT NULL constraint failed: subtasks.title"), 0, 0)
    ELSE IF ~TaskExists(st, row.task_id)
    THEN Outcome(st, Uncaught("FOREIGN KEY constraint failed"), 0, 0)
    ELSE Outcome([st EXCEPT !.subtasks = @ \cup {row}, !.seq.subtasks = row.id],
                 Json(200, [id |-> row.id, title |-> body.title, completed |-> 0]),
                 1, 0)

\* (an UPDATE that follows the subtask to its task and checks the owner)
UpdateSubtaskOfOwnTask(st, user, id, body) ==
    LET hit == {s \in st.subtasks :
                   s.id = id /\ \E t \in st.tasks : t.id = s.task_id /\ t.user_id = user.id}
    IN Outcome([st EXCEPT !.subtasks =
                    (@ \ hit) \cup {[s EXCEPT !.completed = Coerce01(body.completed)] : s \in hit}],
               Json(200, [success |-> TRUE]), Cardinality(hit), 0)

\* PUT /api/subtasks/:id
UpdateSubtaskHandler(st, user, id, body) ==
    LET hit == {s \in st.subtasks : s.id = id} IN
    Outcome([st EXCEPT !.subtasks =
                 (@ \ hit) \cup {[s EXCEPT !.completed = Coerce01(body.completed)] : s \in hit}],
            Json(200, [success |-> TRUE]), Cardinality(hit), 0)

---------------------------------------------------------------------------
(* Stats Route *)

\* COUNT(*)
Count(S) == Cardinality(S)

\* SUM(CASE WHEN ... THEN 1 ELSE 0 END): NULL over no rows at all, else the
\* number (written as a JSON scalar, like every value that may be NULL)
SumCase(rows, matching) == IF rows = {} THEN Null ELSE ToString(Cardinality(matching))

\* (created_at >= datetime('now', '-7 days'))
InWeekToTheSecond(row, t) == row.created_at >= t - 7 * SecondsPerDay

\* created_at >= date('now', '-7 days'): a 'YYYY-MM-DD HH:MM:SS' text compared
\* with a 'YYYY-MM-DD' text, so the whole of the day seven days back is in
InWeek(row, t) == DateOf(row.created_at) >= DateOf(t) - 7

\* SELECT date(created_at) as date, COUNT(*) as count ... GROUP BY date(created_at)
Weekly(st, t, uid) ==
    LET rows == {r \in OwnedBy(st, uid) : InWeek(r, t)} IN
    {[date |-> d, count |-> Count({r \in rows : DateOf(r.created_at) = d})] :
        d \in {DateOf(r.created_at) : r \in rows}}

\* GET /api/stats
StatsHandler(st, t, user) ==
    LET rows == OwnedBy(st, user.id) IN
    Outcome(st,
            Json(200, [total |-> Count(rows),
                       completed |-> SumCase(rows, {r \in rows : r.completed = 1}),
                       high_priority_pending |->
                           SumCase(rows, {r \in rows : r.priority = "high" /\ r.completed = 0}),
                       weekly |-> Weekly(st, t, user.id)]),
            0, 0)

\* GET /api/me
MeHandler(st, user) == Outcome(st, Json(200, user), 0, 0)

---------------------------------------------------------------------------
(* Requests: one action per route *)

\* a request that has no body besides its arg
NoBody == [body |-> Absent]

\* the record of a served request: arg is the id in its path, or its body
\* for the routes without one; body is the body that came with an id
Served(op, cred, arg, out) ==
    [op |-> op, cred |-> cred, arg |-> arg, body |-> NoBody, res |-> out.res,
     changes |-> out.changes, cascaded |-> out.cascaded]

\* no request has been served in the latest step
Idle ==
    [op |-> "none", cred |-> NoCookie, arg |-> 0, body |-> NoBody,
     res |-> Json(0, [none |-> TRUE]), changes |-> 0, cascaded |-> 0]

\* authenticate answered and next() was never called
Denied(st, res) == Outcome(st, res, 0, 0)

\* the step that serves a request against the database
Serve(op, cred, arg, out) ==
    /\ db' = out.st
    /\ last' = Served(op, cred, arg, out)
    /\ UNCHANGED <<now, tokens, pending, shadow>>

\* the step that serves a request with an id in its path and a body
ServeBody(op, cred, arg, body, out) ==
    /\ db' = out.st
    /\ last' = [Served(op, cred, arg, out) EXCEPT !.body = body]
    /\ UNCHANGED <<now, tokens, pending, shadow>>

\* POST /api/register up to its await: validation, then bcrypt.hash starts
RegisterBegin(body) ==
    IF RegisterValid(body)
    THEN /\ pending' = Append(pending, body)
         /\ last' = Idle
         /\ UNCHANGED <<db, now, tokens, shadow>>
    ELSE /\ db' = db
         /\ last' = Served("Register", NoCookie, body, RegisterInvalid(db))
         /\ UNCHANGED <<now, tokens, pending, shadow>>

\* POST /api/register from its await on, for the i-th request in flight
RegisterEnd(i, salt) ==
    LET body == pending[i]
        out == RegisterInsert(db, body, salt)
    IN /\ db' = out.st
       /\ last' = Served("Register", NoCookie, body, out)
       /\ pending' = [j \in 1..(Len(pending) - 1) |->
                          IF j < i THEN pending[j] ELSE pending[j + 1]]
       /\ UNCHANGED <<now, tokens, shadow>>

\* POST /api/login.  Its await (bcrypt.compare) comes after its only read of
\* the database, and no route changes or deletes a user row
Login(body, rejection) ==
    LET out == LoginHandler(db, now, body, rejection) IN
    /\ tokens' = tokens \cup out.issued
    /\ last' = Served("Login", NoCookie, body, Outcome(db, out.res, 0, 0))
    /\ UNCHANGED <<db, now, pending, shadow>>

Logout(cred) == Serve("Logout", cred, 0, LogoutHandler(db))

Me(cred) ==
    LET a == authenticate(cred, now) IN
    Serve("Me", cred, 0, IF a.ok THEN MeHandler(db, a.user) ELSE Denied(db, a.res))

Stats(cred) ==
    LET a == authenticate(cred, now) IN
    Serve("Stats", cred, 0,
          IF a.ok THEN StatsHandler(db, now, a.user) ELSE Denied(db, a.res))

ListTasks(cred) ==
    LET a == authenticate(cred, now) IN
    IF a.ok
    THEN \E rows \in SelectTasks(db, a.user.id) :
             Serve("ListTasks", cred, 0, ListTasksHandler(db, a.user, rows))
    ELSE Serve("ListTasks", cred, 0, Denied(db, a.res))

CreateTask(cred, body) ==
    LET a == authenticate(cred, now) IN
    Serve("CreateTask", cred, body,
          IF a.ok THEN CreateTaskHandler(db, now, a.user, body) ELSE Denied(db, a.res))

UpdateTask(cred, id, body) ==
    LET a == authenticate(cred, now) IN
    ServeBody("UpdateTask", cred, id, body,
          IF a.ok THEN UpdateTaskHandler(db, a.user, id, body) ELSE Denied(db, a.res))

DeleteTask(cred, id) ==
    LET a == authenticate(cred, now) IN
    Serve("DeleteTask", cred, id,
          IF a.ok THEN DeleteTaskHandler(db, a.user, id) ELSE Denied(db, a.res))

CreateSubtask(cred, taskId, body) ==
    LET a == authenticate(cred, now) IN
    ServeBody("CreateSubtask", cred, taskId, body,
          IF a.ok THEN CreateSubtaskHandler(db, a.user, taskId, body) ELSE Denied(db, a.res))

UpdateSubtask(cred, id, body) ==
    LET a == authenticate(cred, now) IN
    ServeBody("UpdateSubtask", cred, id, body,
          IF a.ok THEN UpdateSubtaskHandler(db, a.user, id, body) ELSE Denied(db, a.res))

\* the wall clock moves on by d seconds between two requests
Tick(d) ==
    /\ now' = now + d
    /\ last' = Idle
    /\ UNCHANGED <<db, tokens, pending, shadow>>

---------------------------------------------------------------------------
(* The task store: two registered users with a session each *)

MaxTasks == 2
MaxSubtasks == 2

Ann == [id |-> 1, email |-> "a@x.com", password |-> BcryptHash("pw", "s1"), name |-> "Ann"]
Bob == [id |-> 2, email |-> "b@x.com", password |-> BcryptHash("pw2", "s1"), name |-> "b"]

\* tasks.db as an earlier run of the server left it (CREATE TABLE IF NOT
\* EXISTS keeps the rows): both users registered, no task yet
SeedDb == [EmptyDb EXCEPT !.users = {Ann, Bob}, !.seq.users = 2]

SeedTokens == {JwtSign(Ann, 0), JwtSign(Bob, 0)}

NoFields ==
    [title |-> Absent, description |-> Absent, priority |-> Absent,
     category |-> Absent, due_date |-> Absent, completed |-> Absent]

\* the scenario's task: {title: "Ship release", priority: "high"}
Ship == [NoFields EXCEPT !.title = "Ship release", !.priority = "high"]

\* request bodies for POST /api/tasks
TaskBodies == {Ship}

\* request bodies for PUT /api/tasks/:id
UpdateBodies == {[Ship EXCEPT !.completed = "true"], NoFields}

SubtaskBodies == {[title |-> "Write notes"]}

SubtaskUpdates == {[completed |-> "true"]}

\* what a request may carry in its token cookie
Creds == tokens

Init ==
    /\ db = SeedDb
    /\ now = 0
    /\ tokens = SeedTokens
    /\ pending = <<>>
    /\ last = Idle
    /\ shadow = EmptyDb

Next ==
    \/ \E cred \in Creds : Stats(cred)
    \/ \E cred \in Creds : ListTasks(cred)
    \/ \E cred \in Creds, body \in TaskBodies :
           db.seq.tasks < MaxTasks /\ CreateTask(cred, body)
    \/ \E cred \in Creds, id \in 1..MaxTasks, body \in UpdateBodies :
           UpdateTask(cred, id, body)
    \/ \E cred \in Creds, id \in 1..MaxTasks : DeleteTask(cred, id)
    \/ \E cred \in Creds, id \in 1..MaxTasks, body \in SubtaskBodies :
           db.seq.subtasks < MaxSubtasks /\ CreateSubtask(cred, id, body)

Spec == Init /\ [][Next]_vars

---------------------------------------------------------------------------
(* Task fields and statistics: the task routes with more kinds of body *)

Milk ==
    [NoFields EXCEPT !.title = "Buy milk", !.description = "2 litres",
                     !.category = "Home", !.due_date = "2026-11-09"]

FieldBodies == {Ship, Milk, [NoFields EXCEPT !.title = ""], NoFields}

\* a body that carries only the fields it changes
Retitle == [NoFields EXCEPT !.title = "Ship it", !.completed = "true"]

FieldUpdates ==
    {[Ship EXCEPT !.completed = "true"], [Ship EXCEPT !.completed = "false"], Retitle,
     NoFields}

NextFields ==
    \/ \E cred \in Creds : Stats(cred)
    \/ \E cred \in Creds, body \in FieldBodies :
           db.seq.tasks < MaxTasks /\ CreateTask(cred, body)
    \/ \E cred \in Creds, id \in 1..MaxTasks, body \in FieldUpdates :
           UpdateTask(cred, id, body)
    \/ \E cred \in Creds, id \in 1..MaxTasks : DeleteTask(cred, id)

SpecFields == Init /\ [][NextFields]_vars

---------------------------------------------------------------------------
(* Creation times: tasks created while the clock runs *)

MaxClock == 1

NextClock ==
    \/ now < MaxClock /\ Tick(1)
    \/ \E cred \in Creds : ListTasks(cred)
    \/ \E cred \in Creds : db.seq.tasks < MaxTasks /\ CreateTask(cred, Ship)
    \/ \E cred \in Creds, id \in 1..MaxTasks : DeleteTask(cred, id)

SpecClock == Init /\ [][NextClock]_vars

---------------------------------------------------------------------------
(* Registration and login, from an empty database *)

MaxPending == 2

Salts == {"s1"}

RegisterBodies ==
    {[email |-> "a@x.com", password |-> "pw", name |-> "Ann"],
     [email |-> "a@x.com", password |-> "pw2", name |-> Absent],
     [email |-> "b@x.com", password |-> "pw2", name |-> Absent],
     [email |-> Absent, password |-> "pw", name |-> "Ann"],
     [email |-> "a@x.com", password |-> Absent, name |-> "Ann"]}

LoginBodies ==
    {[email |-> e, password |-> pw] :
        e \in {"a@x.com", "b@x.com", Absent}, pw \in {"pw", "pw2", Absent}}

IllegalArguments == "Illegal arguments: undefined, string"

AnyCreds == {NoCookie, Garbage} \cup tokens

InitAuth ==
    /\ db = EmptyDb
    /\ now = 0
    /\ tokens = {}
    /\ pending = <<>>
    /\ last = Idle
    /\ shadow = EmptyDb

NextAuth ==
    \/ \E body \in RegisterBodies : Len(pending) < MaxPending /\ RegisterBegin(body)
    \/ \E i \in DOMAIN pending, salt \in Salts : RegisterEnd(i, salt)
    \/ \E body \in LoginBodies, rejection \in Rejections(IllegalArguments) :
           Login(body, rejection)
    \/ \E cred \in AnyCreds : Logout(cred)
    \/ \E cred \in AnyCreds : Me(cred)

SpecAuth == InitAuth /\ [][NextAuth]_vars

---------------------------------------------------------------------------
(* Sessions: credentials that are missing, malformed or expired *)

SessionRows == 1

InitSession ==
    /\ db = SeedDb
    /\ now = 0
    /\ tokens = {}
    /\ pending = <<>>
    /\ last = Idle
    /\ shadow = EmptyDb

AnnLogin == [email |-> "a@x.com", password |-> "pw"]

Done == [completed |-> "true"]

NextSession ==
    \/ now < MaxClock * TokenTTL /\ Tick(TokenTTL)
    \/ Login(AnnLogin, Unanswered(IllegalArguments))
    \/ \E cred \in AnyCreds : Logout(cred)
    \/ \E cred \in AnyCreds : Me(cred)
    \/ \E cred \in AnyCreds : Stats(cred)
    \/ \E cred \in AnyCreds : ListTasks(cred)
    \/ \E cred \in AnyCreds : db.seq.tasks < SessionRows /\ CreateTask(cred, Ship)
    \/ \E cred \in AnyCreds, id \in 1..SessionRows :
           UpdateTask(cred, id, [Ship EXCEPT !.completed = "true"])
    \/ \E cred \in AnyCreds, id \in 1..SessionRows : DeleteTask(cred, id)
    \/ \E cred \in AnyCreds, id \in 1..SessionRows :
           db.seq.subtasks < SessionRows /\ CreateSubtask(cred, id, [title |-> "Write notes"])
    \/ \E cred \in AnyCreds, id \in 1..SessionRows : UpdateSubtask(cred, id, Done)

SpecSession == InitSession /\ [][NextSession]_vars

---------------------------------------------------------------------------
(* Two runs: db sees the requests of Ann and Bob, shadow only those of Ann *)

AnnToken == JwtSign(Ann, 0)
BobToken == JwtSign(Bob, 0)

\* a request of Ann, served in both runs
ServeBoth(op, arg, out, out2) ==
    /\ db' = out.st
    /\ shadow' = out2.st
    /\ last' = Served(op, AnnToken, arg, out)
    /\ UNCHANGED <<now, tokens, pending>>

AnnCreateTask(body) ==
    LET a == authenticate(AnnToken, now) IN
    ServeBoth("CreateTask", body, CreateTaskHandler(db, now, a.user, body),
              CreateTaskHandler(shadow, now, a.user, body))

AnnUpdateTask(id, body) ==
    LET a == authenticate(AnnToken, now) IN
    ServeBoth("UpdateTask", id, UpdateTaskHandler(db, a.user, id, body),
              UpdateTaskHandler(shadow, a.user, id, body))

AnnDeleteTask(id) ==
    LET a == authenticate(AnnToken, now) IN
    ServeBoth("DeleteTask", id, DeleteTaskHandler(db, a.user, id),
              DeleteTaskHandler(shadow, a.user, id))

InitTwoRuns ==
    /\ db = SeedDb
    /\ now = 0
    /\ tokens = SeedTokens
    /\ pending = <<>>
    /\ last = Idle
    /\ shadow = SeedDb

NextTwoRuns ==
    \/ \E body \in TaskBodies : db.seq.tasks < MaxTasks /\ AnnCreateTask(body)
    \/ \E id \in 1..MaxTasks, body \in UpdateBodies : AnnUpdateTask(id, body)
    \/ \E id \in 1..MaxTasks : AnnDeleteTask(id)
    \/ \E body \in TaskBodies : db.seq.tasks < MaxTasks /\ CreateTask(BobToken, body)
    \/ \E id \in 1..MaxTasks, body \in UpdateBodies : UpdateTask(BobToken, id, body)
    \/ \E id \in 1..MaxTasks : DeleteTask(BobToken, id)

SpecTwoRuns == InitTwoRuns /\ [][NextTwoRuns]_vars

---------------------------------------------------------------------------
(* Row ids: one user creates, deletes and creates again *)

NextIds ==
    \/ db.seq.tasks < MaxTasks /\ CreateTask(AnnToken, Ship)
    \/ \E id \in 1..MaxTasks : UpdateTask(AnnToken, id, [Ship EXCEPT !.completed = "true"])
    \/ \E id \in 1..MaxTasks : DeleteTask(AnnToken, id)
    \/ \E id \in 1..MaxTasks, body \in SubtaskBodies :
           db.seq.subtasks < MaxSubtasks /\ CreateSubtask(AnnToken, id, body)
    \/ \E id \in 1..MaxSubtasks, body \in SubtaskUpdates :
           UpdateSubtask(AnnToken, id, body)

SpecIds == Init /\ [][NextIds]_vars

---------------------------------------------------------------------------
(* The life of a task: Ann's tasks, updated and deleted by either user while
   the clock runs *)

LifeSubtasks == 1

NextLife ==
    \/ now < MaxClock /\ Tick(1)
    \/ db.seq.tasks < MaxTasks /\ CreateTask(AnnToken, Ship)
    \/ \E cred \in Creds, id \in 1..MaxTasks, body \in UpdateBodies :
           UpdateTask(cred, id, body)
    \/ \E cred \in Creds, id \in 1..MaxTasks : DeleteTask(cred, id)
    \/ \E cred \in Creds, id \in 1..MaxTasks, body \in SubtaskBodies :
           db.seq.subtasks < LifeSubtasks /\ CreateSubtask(cred, id, body)

SpecLife == Init /\ [][NextLife]_vars

---------------------------------------------------------------------------
(* The trailing week: tasks created and counted over more than seven days *)

MaxDays == 8

\* the clock moves in steps of half a day
HalfDay == SecondsPerDay \div 2

\* the credentials of logins made right before the request: a session lasts
\* a day, so the requests of later days come with later tokens
FreshCreds == {JwtSign(Ann, now), JwtSign(Bob, now)}

NextWeek ==
    \/ now + HalfDay <= MaxDays * SecondsPerDay /\ Tick(HalfDay)
    \/ \E cred \in FreshCreds : db.seq.tasks < MaxTasks /\ CreateTask(cred, Ship)
    \/ \E cred \in FreshCreds : Stats(cred)

SpecWeek == Init /\ [][NextWeek]_vars

---------------------------------------------------------------------------
(* Subtasks: either user sends subtask requests for the tasks of both *)

SubtaskFlags == {[completed |-> "true"], [completed |-> "false"]}

NextSubtasks ==
    \/ \E cred \in Creds : ListTasks(cred)
    \/ \E cred \in Creds, body \in {Ship, Milk} :
           db.seq.tasks < MaxTasks /\ CreateTask(cred, body)
    \/ \E cred \in Creds, id \in 1..MaxTasks, body \in SubtaskBodies :
           db.seq.subtasks < MaxSubtasks /\ CreateSubtask(cred, id, body)
    \/ \E cred \in Creds, id \in 1..MaxSubtasks, body \in SubtaskFlags :
           UpdateSubtask(cred, id, body)

SpecSubtasks == Init /\ [][NextSubtasks]_vars

---------------------------------------------------------------------------
(* Properties of the task store *)

\* what a request's credential is at time t
Missing(cred) == cred.kind = "none"
Malformed(cred) == cred.kind = "garbage"
Expired(cred, t) == cred.kind = "jwt" /\ t >= cred.exp
Verified(cred, t) == cred.kind = "jwt" /\ t < cred.exp

Success == Json(200, [success |-> TRUE])

\* a row of the GET /api/tasks response without the subtasks attached to it
TaskOf(item) == [f \in DOMAIN item \ {"subtasks"} |-> item[f]]

\* C1: UpdateTask and DeleteTask by a verified user with the id of a task
\* that another user owns leave every task row and every subtask row as they
\* were and answer {success: true}.
C1_ForeignUpdateDeleteChangesNothing ==
    [][(/\ last'.op \in {"UpdateTask", "DeleteTask"}
        /\ Verified(last'.cred, now)
        /\ \E t \in db.tasks : t.id = last'.arg /\ t.user_id # last'.cred.id)
       => (db' = db /\ last'.res = Success)]_vars

\* C1 happens: a verified user has just sent DeleteTask with the id of another
\* user's task, which has a subtask
C1_Witness ==
    /\ last.op = "DeleteTask"
    /\ Verified(last.cred, now)
    /\ \E t \in db.tasks :
           /\ t.id = last.arg
           /\ t.user_id # last.cred.id
           /\ \E s \in db.subtasks : s.task_id = t.id

\* C4: ListTasks(owner) returns exactly the stored tasks whose user_id is the
\* owner's id, each once, and each with exactly the stored subtasks whose
\* task_id is its id.
C4_ListTasksIsOwnersTasksWithTheirSubtasks ==
    (last.op = "ListTasks" /\ last.res.status = 200) =>
        LET items == last.res.body IN
        /\ {TaskOf(items[i]) : i \in DOMAIN items}
               = {t \in db.tasks : t.user_id = last.cred.id}
        /\ Len(items) = Cardinality({t \in db.tasks : t.user_id = last.cred.id})
        /\ \A i \in DOMAIN items :
               /\ Range(items[i].subtasks)
                      = {s \in db.subtasks : s.task_id = items[i].id}
               /\ Len(items[i].subtasks)
                      = Cardinality({s \in db.subtasks : s.task_id = items[i].id})

\* C4 happens: a list was returned with a task that has subtasks while the
\* other user has a task with a subtask too
C4_Witness ==
    /\ last.op = "ListTasks"
    /\ last.res.status = 200
    /\ \E i \in DOMAIN last.res.body : last.res.body[i].subtasks # <<>>
    /\ \E t \in db.tasks :
           /\ t.user_id # last.cred.id
           /\ \E s \in db.subtasks : s.task_id = t.id

\* C5: DeleteTask by the owner of task t removes t and every subtask of t,
\* and leaves every other task and every subtask of every other task as it
\* was.
C5_DeleteCascadesToOwnSubtasksOnly ==
    [][(/\ last'.op = "DeleteTask"
        /\ Verified(last'.cred, now)
        /\ \E t \in db.tasks : t.id = last'.arg /\ t.user_id = last'.cred.id)
       => (/\ db'.tasks = {t \in db.tasks : t.id # last'.arg}
           /\ db'.subtasks = {s \in db.subtasks : s.task_id # last'.arg}
           /\ \A s \in db'.subtasks : s.task_id # last'.arg
           /\ db'.users = db.users)]_vars

\* C5 happens: an owner's DeleteTask removed a task and a subtask with it,
\* and another task with a subtask is still there
C5_Witness ==
    /\ last.op = "DeleteTask"
    /\ last.changes = 1
    /\ last.cascaded >= 1
    /\ \E t \in db.tasks : \E s \in db.subtasks : s.task_id = t.id

---------------------------------------------------------------------------
(* Properties of registration, login and sessions *)

\* C2: Register with an email that a stored user already has answers 400
\* (the conflict error, when the request has a password) and leaves the
\* users table as it was; no two user rows ever share an email.
C2_DuplicateEmailIsRefused ==
    /\ [](\A u, v \in db.users : u.email = v.email => u = v)
    /\ [][(/\ last'.op = "Register"
           /\ \E u \in db.users : u.email = last'.arg.email)
          => (/\ last'.res.status = 400
              /\ ~Falsy(last'.arg.password)
                   => last'.res.body = [error |-> "Email already exists"]
              /\ db' = db)]_vars

\* C2 happens: a register request with a password was refused for an email
\* that is stored, while another user is stored too
C2_Witness ==
    /\ last.op = "Register"
    /\ ~Falsy(last.arg.password)
    /\ last.res.status = 400
    /\ \E u \in db.users : u.email = last.arg.email
    /\ Cardinality(db.users) = 2

ProtectedOps ==
    {"Me", "ListTasks", "CreateTask", "UpdateTask", "DeleteTask", "CreateSubtask",
     "UpdateSubtask", "Stats"}

\* C3: every protected operation called with a missing, malformed or expired
\* credential answers 401 and leaves users, tasks and subtasks as they were.
C3_BadCredentialIsRefused ==
    [][(/\ last'.op \in ProtectedOps
        /\ \/ Missing(last'.cred)
           \/ Malformed(last'.cred)
           \/ Expired(last'.cred, now'))
       => (last'.res.status = 401 /\ last'.res.type = "json" /\ db' = db)]_vars

\* C3 happens: DeleteTask came with an expired credential of the owner of
\* the task it names, which has a subtask
C3_Witness ==
    /\ last.op = "DeleteTask"
    /\ Expired(last.cred, now)
    /\ last.res.status = 401
    /\ \E t \in db.tasks :
           /\ t.id = last.arg
           /\ t.user_id = last.cred.id
           /\ \E s \in db.subtasks : s.task_id = t.id

\* C7: Login succeeds (answers the stored user's id, email and name and
\* issues a credential with exactly those claims) if and only if a user with
\* that email is stored and the submitted password hashes to the stored
\* value; in every other case it answers 401 and issues no credential.
C7_LoginIffPasswordMatches ==
    [][last'.op = "Login" =>
        LET body == last'.arg
            match == {u \in db.users :
                         /\ u.email = body.email
                         /\ BcryptHash(body.password, u.password.salt) = u.password}
        IN IF match # {}
           THEN \E u \in match :
                    /\ last'.res = Json(200, [id |-> u.id, email |-> u.email, name |-> u.name])
                    /\ \E tok \in tokens' :
                           /\ tok.id = u.id /\ tok.email = u.email /\ tok.name = u.name
                           /\ tokens' = tokens \cup {tok}
           ELSE last'.res.status = 401 /\ tokens' = tokens]_vars

---------------------------------------------------------------------------
(* Properties of task fields, statistics and order *)

\* C6: ComputeStats(owner) returns total = N, completed = K and
\* high_priority_pending = H for an owner with N stored tasks of which K are
\* completed and H of the pending ones have priority 'high', N = 0 included.
C6_StatsCountOwnersTasks ==
    (last.op = "Stats" /\ last.res.status = 200) =>
        LET mine == {t \in db.tasks : t.user_id = last.cred.id}
            done == {t \in mine : t.completed = 1}
            high == {t \in mine \ done : t.priority = "high"}
        IN /\ last.res.body.total = Cardinality(mine)
           /\ last.res.body.completed = ToString(Cardinality(done))
           /\ last.res.body.high_priority_pending = ToString(Cardinality(high))

\* C8: CreateTask with an empty or absent title answers 400 and persists no
\* task row.
C8_EmptyTitleIsRejected ==
    [][(/\ last'.op = "CreateTask"
        /\ Verified(last'.cred, now')
        /\ last'.arg.title \in {Absent, ""})
       => (last'.res.status = 400 /\ db'.tasks = db.tasks)]_vars

\* what user a can see of the tasks in database st at time t: the rows, the
\* rows GET /api/tasks lists, and the counts of GET /api/stats
View(st, a, t) ==
    [rows |-> {r \in st.tasks : r.user_id = a},
     listed |-> {Range(rows) : rows \in SelectTasks(st, a)},
     stats |-> StatsHandler(st, t, [id |-> a]).res.body]

\* C9, as amended: no request served under identity B changes any stored
\* field of a task owned by A # B, the set of tasks ListTasks(A) returns, or
\* the result of ComputeStats(A).
C9_OthersRequestsLeaveTheViewAlone ==
    [][\A a \in {Ann.id, Bob.id} :
          (Verified(last'.cred, now') /\ last'.cred.id # a)
              => View(db', a, now') = View(db, a, now)]_vars

\* C9 happens: Bob has just sent UpdateTask with the id of a task of Ann
C9_Witness ==
    /\ last.op = "UpdateTask"
    /\ last.cred = BobToken
    /\ last.res.status = 200
    /\ \E t \in db.tasks : t.id = last.arg /\ t.user_id = Ann.id

\* C9, as claimed: two runs that differ only in Bob's requests give Ann the
\* same task fields, the same list and the same stats.
C9_TwoRunsGiveTheSameView == View(db, Ann.id, now) = View(shadow, Ann.id, now)

\* C10: ListTasks(owner) returns the tasks in non-increasing order of
\* created_at: each task's created_at is >= that of the task after it.
C10_ListTasksNewestFirst ==
    (last.op = "ListTasks" /\ last.res.status = 200) =>
        \A i \in 1..(Len(last.res.body) - 1) :
            last.res.body[i].created_at >= last.res.body[i + 1].created_at

\* C10 happens: a list came back with two tasks created at different times
C10_Witness ==
    /\ last.op = "ListTasks"
    /\ last.res.status = 200
    /\ Len(last.res.body) >= 2
    /\ last.res.body[1].created_at # last.res.body[2].created_at

---------------------------------------------------------------------------
(* Properties of task creation and of subtasks *)

\* C11: a successful CreateTask adds exactly one task row, with an id that no
\* stored task has, user_id = the caller, completed = 0, priority 'medium'
\* when priority is absent, category 'General' when category is absent and
\* no subtasks; it answers that id, completed 0 and an empty subtask list, and
\* leaves every other row as it was.
C11_CreateTaskAddsOneRowWithDefaults ==
    [][(last'.op = "CreateTask" /\ last'.res.status = 200) =>
        \E row \in db'.tasks :
            /\ db'.tasks = db.tasks \cup {row}
            /\ \A t \in db.tasks : t.id # row.id
            /\ row.user_id = last'.cred.id
            /\ row.completed = 0
            /\ last'.arg.priority = Absent => row.priority = "medium"
            /\ last'.arg.category = Absent => row.category = "General"
            /\ \A s \in db'.subtasks : s.task_id # row.id
            /\ last'.res.body.id = row.id
            /\ last'.res.body.completed = 0
            /\ last'.res.body.subtasks = <<>>
            /\ db'.subtasks = db.subtasks
            /\ db'.users = db.users]_vars

\* C11 happens: a task was created from a body without priority and category
\* while another task with a subtask is stored
C11_Witness ==
    /\ last.op = "CreateTask"
    /\ last.res.status = 200
    /\ last.arg.priority = Absent
    /\ \E t \in db.tasks :
           /\ t.id = last.res.body.id
           /\ t.priority = "medium"
    /\ \E s \in db.subtasks : s.task_id # last.res.body.id

\* C15: CreateSubtask and UpdateSubtask check no ownership: for a verified
\* caller and an existing task of any owner, CreateSubtask adds a subtask to
\* that task, and UpdateSubtask sets the completion flag of an existing
\* subtask of any task, so one user changes the subtasks another user lists.
C15_SubtaskRoutesIgnoreOwnership ==
    [][/\ (/\ last'.op = "CreateSubtask"
           /\ Verified(last'.cred, now')
           /\ \E t \in db.tasks : t.id = last'.arg)
          => /\ last'.res.status = 200
             /\ \E s \in db'.subtasks :
                    /\ s \notin db.subtasks
                    /\ db'.subtasks = db.subtasks \cup {s}
                    /\ s.id = last'.res.body.id
                    /\ s.task_id = last'.arg
                    /\ s.title = last'.body.title
                    /\ s.completed = 0
       /\ (/\ last'.op = "UpdateSubtask"
           /\ Verified(last'.cred, now')
           /\ \E s \in db.subtasks : s.id = last'.arg)
          => /\ last'.res = Success
             /\ db'.subtasks =
                    {IF s.id = last'.arg
                     THEN [s EXCEPT !.completed =
                               IF last'.body.completed = "true" THEN 1 ELSE 0]
                     ELSE s : s \in db.subtasks}]_vars

\* C15 happens: a user has just completed a subtask of another user's task
C15_Witness ==
    /\ last.op = "UpdateSubtask"
    /\ last.body.completed = "true"
    /\ last.changes = 1
    /\ \E s \in db.subtasks :
           /\ s.id = last.arg
           /\ s.completed = 1
           /\ \E t \in db.tasks : t.id = s.task_id /\ t.user_id # last.cred.id

\* C20: every stored subtask's task_id is the id of a stored task in every
\* state (a delete takes the task and its subtasks in one step), and
\* CreateSubtask with an id that no stored task has, never created or
\* deleted, adds no subtask row.
C20_SubtasksBelongToStoredTasks ==
    /\ [](\A s \in db.subtasks : \E t \in db.tasks : t.id = s.task_id)
    /\ [][(/\ last'.op = "CreateSubtask"
           /\ \A t \in db.tasks : t.id # last'.arg)
          => db'.subtasks = db.subtasks]_vars

\* C20 happens: CreateSubtask has just been refused for the id of a deleted
\* task while another task has a subtask
C20_Witness ==
    /\ last.op = "CreateSubtask"
    /\ Verified(last.cred, now)
    /\ last.res.status = 500
    /\ last.arg <= db.seq.tasks
    /\ \A t \in db.tasks : t.id # last.arg
    /\ db.subtasks # {}

---------------------------------------------------------------------------
(* Properties of registration *)

\* a field the request body does not carry
MissingField(v) == v \in {Absent, Null}

\* C12: Register with a missing email or a missing password answers 400 and
\* creates no user row; otherwise, when no stored user has the email, it
\* creates exactly one user, whose name is the supplied name or the part of
\* the email before '@' when no name is supplied, and answers its id.
C12_RegisterValidatesThenCreates ==
    [][last'.op = "Register" =>
        LET body == last'.arg IN
        IF MissingField(body.email) \/ MissingField(body.password)
        THEN last'.res.status = 400 /\ db' = db
        ELSE (\A u \in db.users : u.email # body.email) =>
                 \E u \in db'.users :
                     /\ u \notin db.users
                     /\ db'.users = db.users \cup {u}
                     /\ \A v \in db.users : v.id # u.id
                     /\ u.email = body.email
                     /\ u.name = IF MissingField(body.name)
                                 THEN LocalPart(body.email) ELSE body.name
                     /\ last'.res = Json(200, [id |-> u.id])]_vars

\* C12 happens: a second user was registered from a body without name and
\* got the local part of the email as name
C12_Witness ==
    /\ last.op = "Register"
    /\ last.res.status = 200
    /\ last.arg.name = Absent
    /\ Cardinality(db.users) = 2
    /\ \E u \in db.users : u.id = last.res.body.id /\ u.name = LocalPart(u.email)

\* C19: Register is not atomic: a call that passed validation writes nothing
\* until its hash has resolved, and other requests are served meanwhile.  Of
\* the concurrent calls with one unused email, the first whose hash resolves
\* creates the user row and answers its id, every later one answers the
\* conflict error and writes nothing, and no email is ever stored twice.
C19_ConcurrentRegistrationsCreateOneUser ==
    /\ [](\A body \in RegisterBodies :
             Cardinality({u \in db.users : u.email = body.email}) <= 1)
    /\ [][Len(pending') > Len(pending) => db' = db]_vars
    /\ [][(last'.op = "Register" /\ Len(pending') < Len(pending)) =>
             LET body == last'.arg IN
             IF \E u \in db.users : u.email = body.email
             THEN /\ last'.res = Json(400, [error |-> "Email already exists"])
                  /\ db' = db
             ELSE /\ last'.res.status = 200
                  /\ \E u \in db'.users :
                         /\ u \notin db.users
                         /\ db'.users = db.users \cup {u}
                         /\ u.email = body.email
                         /\ last'.res.body.id = u.id]_vars

\* C19 happens: of two calls in flight with the same email, one has just
\* created the user while the other still awaits its hash
C19_Witness ==
    /\ last.op = "Register"
    /\ last.res.status = 200
    /\ \E i \in DOMAIN pending :
           /\ pending[i].email = last.arg.email
           /\ pending[i] # last.arg

---------------------------------------------------------------------------
(* Properties of task updates *)

\* the body the client sends to set the completion flag of a task it holds:
\* the task's own fields with completed replaced ({...task, completed})
ToggleBody(row, flag) ==
    [title |-> row.title, description |-> row.description, priority |-> row.priority,
     category |-> row.category, due_date |-> row.due_date, completed |-> flag]

\* C13: UpdateTask on an owned task is idempotent (the same update applied
\* twice leaves the stored state that applying it once leaves), and updating
\* completed to true and then to false with the other fields as they are
\* leaves the task with completed = 0 and every other field, and every other
\* row, as before the two updates.
C13_UpdateIsIdempotentAndRoundTrips ==
    /\ [](\A cred \in tokens : \A r \in db.tasks :
             (Verified(cred, now) /\ r.user_id = cred.id) =>
                 LET user == [id |-> cred.id, email |-> cred.email, name |-> cred.name]
                     up == UpdateTaskHandler(db, user, r.id, ToggleBody(r, "true")).st
                     down == UpdateTaskHandler(up, user, r.id, ToggleBody(r, "false")).st
                 IN /\ up.tasks = (db.tasks \ {r}) \cup {[r EXCEPT !.completed = 1]}
                    /\ down = [db EXCEPT !.tasks = (@ \ {r}) \cup {[r EXCEPT !.completed = 0]}]
                    /\ \A body \in FieldUpdates :
                           LET once == UpdateTaskHandler(db, user, r.id, body).st
                           IN UpdateTaskHandler(once, user, r.id, body).st = once)
    /\ [][(/\ last.op = "UpdateTask"
           /\ last'.op = "UpdateTask"
           /\ last'.cred = last.cred
           /\ last'.arg = last.arg
           /\ last'.body = last.body
           /\ Verified(last'.cred, now'))
          => db' = db]_vars

\* C13 happens: the owner has just set a completed task back to not
\* completed with a body that carries the task's other fields
C13_Witness ==
    /\ last.op = "UpdateTask"
    /\ last.changes = 1
    /\ last.body.completed = "false"
    /\ \E r \in db.tasks :
           /\ r.id = last.arg
           /\ r.user_id = last.cred.id
           /\ r.completed = 0
           /\ [ToggleBody(r, "false") EXCEPT !.description = Absent, !.category = Absent,
                                             !.due_date = Absent]
                  = [last.body EXCEPT !.description = Absent, !.category = Absent,
                                      !.due_date = Absent]

\* C17: a task's id, user_id and created_at are fixed at creation: no step
\* changes the user_id or created_at of the task with a given id while it is
\* stored, no two stored tasks share an id, and an UpdateTask leaves the set
\* of stored ids as it was.
C17_IdOwnerAndCreationTimeAreFixed ==
    /\ [](\A t, u \in db.tasks : t.id = u.id => t = u)
    /\ [][/\ \A t \in db.tasks : \A u \in db'.tasks :
                 u.id = t.id => (u.user_id = t.user_id /\ u.created_at = t.created_at)
          /\ last'.op = "UpdateTask"
                 => {u.id : u \in db'.tasks} = {t.id : t \in db.tasks}]_vars

\* C17 happens: the owner has just updated a task that was created after the
\* clock had moved on, while an older task is stored too
C17_Witness ==
    /\ last.op = "UpdateTask"
    /\ last.changes = 1
    /\ \E t, u \in db.tasks :
           /\ t.id = last.arg
           /\ t.completed = 1
           /\ t.created_at > u.created_at

---------------------------------------------------------------------------
(* Properties of error responses and of stored fields *)

\* C14: every error outcome of every endpoint is a JSON body {error: string}
\* with status 400, 401 or 500, a constraint violation raised by an insert of
\* the task store included.
C14_ErrorsAreJsonErrorBodies ==
    (last.op # "none" /\ last.res.status # 200) =>
        /\ last.res.type = "json"
        /\ last.res.status \in {400, 401, 500}
        /\ DOMAIN last.res.body = {"error"}

\* C16: every stored task has priority low, medium or high, whatever
\* CreateTask and UpdateTask calls came before.
C16_PriorityIsLowMediumHigh ==
    \A t \in db.tasks : t.priority \in {"low", "medium", "high"}

---------------------------------------------------------------------------
(* Properties of the weekly statistics *)

\* the first second of the day that is n days before the day of time t
DayStart(t, n) == (t - (t % SecondsPerDay)) - n * SecondsPerDay

\* the day a task was created on, as the first second of that day
CreatedOn(r) == r.created_at - (r.created_at % SecondsPerDay)

\* C18: ComputeStats(owner).weekly has one entry per distinct creation day,
\* with distinct dates, each with the number of the owner's tasks created on
\* that day, over exactly the owner's tasks created on or after the date
\* seven days before the current date; each such task is in one bucket.
C18_WeeklyCountsPerDayOfTheTrailingWeek ==
    (last.op = "Stats" /\ last.res.status = 200) =>
        LET weekly == last.res.body.weekly
            recent == {r \in db.tasks :
                          r.user_id = last.cred.id /\ r.created_at >= DayStart(now, 7)}
        IN /\ \A e, f \in weekly : e.date = f.date => e = f
           /\ {e.date * SecondsPerDay : e \in weekly} = {CreatedOn(r) : r \in recent}
           /\ \A e \in weekly :
                  e.count = Cardinality({r \in recent : CreatedOn(r) = e.date * SecondsPerDay})

\* C18 happens: stats were computed for an owner with a task created on the
\* day seven days back, after midnight, and a task created before that day
C18_Witness ==
    /\ last.op = "Stats"
    /\ last.res.status = 200
    /\ last.res.body.weekly # {}
    /\ \E r, old \in db.tasks :
           /\ r.user_id = last.cred.id
           /\ old.user_id = last.cred.id
           /\ CreatedOn(r) = DayStart(now, 7)
           /\ r.created_at > CreatedOn(r)
           /\ old.created_at < DayStart(now, 7)

---------------------------------------------------------------------------
(* Properties of logout *)

\* C21: Logout answers {success: true} with or without a session and changes
\* no server-side state; a credential that Login issued expires 24 hours
\* after it was issued, and until then every protected operation accepts
\* it, whatever logouts came before.
C21_LogoutRevokesNothing ==
    /\ [][last'.op = "Logout" =>
             /\ last'.res = Success
             /\ db' = db
             /\ tokens' = tokens]_vars
    /\ [][(last'.op = "Login" /\ last'.res.status = 200) =>
             /\ tokens' # tokens \/ \E tok \in tokens : tok.exp = now + 24 * 3600
             /\ \A tok \in tokens' \ tokens : tok.exp = now + 24 * 3600]_vars
    /\ [][(/\ last.op = "Logout"
           /\ last'.op \in ProtectedOps
           /\ last'.cred = last.cred
           /\ last'.cred \in tokens
           /\ now' < last'.cred.exp)
          => last'.res.status # 401]_vars
    /\ [][(/\ last'.op \in ProtectedOps
           /\ last'.cred \in tokens
           /\ now' < last'.cred.exp)
          => last'.res.status # 401]_vars

\* C21 happens: a logout has just been served with a credential that a login
\* issued and that is within its 24 hours, while a task is stored
C21_Witness ==
    /\ last.op = "Logout"
    /\ last.cred \in tokens
    /\ Verified(last.cred, now)
    /\ now > 0
    /\ db.tasks # {}

---------------------------------------------------------------------------
(* Properties of row ids *)

\* C22: task ids and subtask ids are never reused.  The table's sequence
\* never decreases and is at least every stored id, and every new row gets
\* an id above it, so above every id assigned before, deleted rows included;
\* an UpdateTask, DeleteTask or UpdateSubtask addressed to an id that no
\* stored row has changes nothing.
C22_IdsAreNeverReused ==
    /\ [](/\ \A t \in db.tasks : t.id <= db.seq.tasks
          /\ \A s \in db.subtasks : s.id <= db.seq.subtasks)
    /\ [][/\ db'.seq.tasks >= db.seq.tasks
          /\ db'.seq.subtasks >= db.seq.subtasks
          /\ \A t \in db'.tasks :
                 (\A u \in db.tasks : u.id # t.id)
                     => (t.id > db.seq.tasks /\ t.id <= db'.seq.tasks)
          /\ \A s \in db'.subtasks :
                 (\A u \in db.subtasks : u.id # s.id)
                     => (s.id > db.seq.subtasks /\ s.id <= db'.seq.subtasks)]_vars
    /\ [][(/\ last'.op \in {"UpdateTask", "DeleteTask"}
           /\ \A t \in db.tasks : t.id # last'.arg)
          => db' = db]_vars
    /\ [][(/\ last'.op = "UpdateSubtask"
           /\ \A s \in db.subtasks : s.id # last'.arg)
          => db' = db]_vars

\* C22 happens: an UpdateTask has just named the id of a deleted task while a
\* task created after the delete, and a subtask of it, are stored
C22_Witness ==
    /\ last.op = "UpdateTask"
    /\ last.res = Success
    /\ last.arg <= db.seq.tasks
    /\ \A t \in db.tasks : t.id # last.arg
    /\ \E t \in db.tasks : t.id > last.arg /\ \E s \in db.subtasks : s.task_id = t.id

=============================================================================
